---- MODULE Spec2Model ----
(***************************************************************************)
(* rau::LinuxThread (src/LinuxThread.h): a move-only handle owning at most *)
(* one POSIX thread.  One caller issues the handle operations; every       *)
(* launched thread runs the trampoline concurrently.                       *)
(***************************************************************************)
EXTENDS Integers, FiniteSets, Sequences, TLC

\* ---------------------------------------------------------------- bounds
NumHandles == 2          \* handle objects (storage slots) the caller uses
MaxThreads == 2          \* constructions with a callable per run

\* ------------------------------------------------------------- constants
Sentinel == 0            \* id::m_threadID{0ull}

Handles     == 1..NumHandles
Threads     == 1..MaxThreads
GarbageId   == MaxThreads + 1      \* a value that names no thread
NativeIds   == 0..GarbageId
\* What pthread_create returns: 0, or an error number (EPERM 1, EAGAIN 11).
CreateResults == {0, 1, 11}

VARIABLES
    alive,      \* alive[h]: the object in slot h is constructed
    m_ID,       \* m_ID[h]: LinuxThread::m_ID (id::m_threadID)
    thread,     \* thread[t]: position of launched thread t in the trampoline
    tstatus,    \* tstatus[t]: platform status: "joinable", "joined", "detached"
    wrapper,    \* wrapper[k]: closure record of the k-th construction
    attempts,   \* constructions with a callable so far
    counter,    \* shared counter the callables increment
    njoin,      \* njoin[t]: pthread_join calls made with the identifier of t
    ndetach,    \* ndetach[t]: pthread_detach calls made with the identifier of t
    proc,       \* "running", "aborted" (std::terminate), "crashed" (fault)
    blocked,    \* handle whose join() the caller is inside, 0 if none
    errno,      \* the caller's errno
    exc,        \* description carried by the exception thrown, "" if none
    result,     \* what the last pthread_create returned
    joiner2,    \* <<h, x>>: a second caller is inside join() on handle h and
                \* passed x to pthread_join; <<0, 0>> if it is not
    owned,      \* history: the thread launched for the handle now in slot h
                \* on which neither join() nor detach() has returned yet
    last        \* history: the step just taken

vars == <<alive, m_ID, thread, tstatus, wrapper, attempts, counter, njoin,
          ndetach, proc, blocked, errno, exc, result, joiner2, owned, last>>

\* ------------------------------------------------------ pure operations
\* pthread_equal as used by id::operator==: nonzero iff same thread.
pthread_equal(a, b) == IF a = b THEN 1 ELSE 0

id_default == Sentinel

id_eq(lhs, rhs) == 0 # pthread_equal(lhs, rhs)

id_ne(lhs, rhs) == ~ id_eq(lhs, rhs)

get_id(h) == m_ID[h]

native_handle(h) == m_ID[h]

\* Variant of joinable with a seeded fault: only the unreachable
\* "return {};" of line 157 is executed.
joinable_returns_default(h) == FALSE

joinable(h) == ~ id_eq(m_ID[h], id_default)

strerror(e) ==
    CASE e = 0      -> "Success"
      [] e = 1      -> "Operation not permitted"
      [] e = 11     -> "Resource temporarily unavailable"
      [] OTHER      -> "Unknown error"

\* std::swap(m_ID, other.m_ID)
swap(f, a, b) == [f EXCEPT ![a] = f[b], ![b] = f[a]]

\* x names a thread that pthread_join / pthread_detach may be given.
IsJoinableThread(x) ==
    /\ x \in Threads
    /\ thread[x] # "unborn"
    /\ tstatus[x] = "joinable"

\* m_ID = *reinterpret_cast<id*>(temp_id): the identifier is used as an
\* address and the id is loaded from there.  What is found there depends on
\* the C library's thread descriptor: the identifier itself, zero, the
\* identifier of another thread whose descriptor exists, or some other word.
StoredIdOutcomes(t) ==
    {t, Sentinel, GarbageId}
        \cup {u \in Threads : thread[u] # "unborn" /\ tstatus[u] # "joined"}

\* The step just taken: the operation, the handle it was called on, the
\* handle moved from (0 if none) and the identifier passed to pthread_join /
\* pthread_detach (NoCall if neither was called).
NoCall == 0 - 1

Step(op, h, o, arg) == [op |-> op, h |-> h, o |-> o, arg |-> arg]

\* One more call of a platform primitive with identifier x.
Called(n, x) == IF x \in Threads THEN [n EXCEPT ![x] = @ + 1] ELSE n

\* ------------------------------------------------------------------ Init
Init ==
    /\ alive    = [h \in Handles |-> FALSE]
    /\ m_ID     = [h \in Handles |-> Sentinel]
    /\ thread   = [t \in Threads |-> "unborn"]
    /\ tstatus  = [t \in Threads |-> "joinable"]
    /\ wrapper  = [k \in Threads |-> [alloc |-> 0, freed |-> 0]]
    /\ attempts = 0
    /\ counter  = 0
    /\ njoin    = [t \in Threads |-> 0]
    /\ ndetach  = [t \in Threads |-> 0]
    /\ proc     = "running"
    /\ blocked  = 0
    /\ errno    = 0
    /\ exc      = ""
    /\ result   = 0
    /\ joiner2  = <<0, 0>>
    /\ owned    = [h \in Handles |-> 0]
    /\ last     = Step("init", 0, 0, NoCall)

CallerReady == proc = "running" /\ blocked = 0

\* --------------------------------------------------------- constructors
\* LinuxThread() noexcept = default
default_construct(h) ==
    /\ CallerReady
    /\ ~ alive[h]
    /\ alive'  = [alive EXCEPT ![h] = TRUE]
    /\ m_ID'   = [m_ID EXCEPT ![h] = Sentinel]
    /\ owned'  = [owned EXCEPT ![h] = 0]
    /\ last'   = Step("default_construct", h, 0, NoCall)
    /\ UNCHANGED <<thread, tstatus, wrapper, attempts, counter, njoin,
                   ndetach, proc, blocked, errno, exc>>
    /\ UNCHANGED <<result, joiner2>>

\* auto* wrapper = new detail::ThreadRoutineWrapper<...>{...}: the closure
\* record of the k-th construction.
new_wrapper(w, k) == [w EXCEPT ![k] = [alloc |-> 1, freed |-> 0]]

\* Variant of delete_wrapper with a seeded fault: the record is not deleted.
delete_wrapper_missing(w, k) == w

\* delete wrapper;
delete_wrapper(w, k) == [w EXCEPT ![k].freed = @ + 1]

\* explicit LinuxThread(Callable&& c, Args&&... args) noexcept
construct(h) ==
    /\ CallerReady
    /\ ~ alive[h]
    /\ attempts < MaxThreads
    /\ LET k == attempts + 1 IN
       \E r \in CreateResults :
         /\ attempts' = k
         /\ result' = r
         /\ IF result' # 0
            THEN \* delete wrapper; throw runtime_error{strerror(errno)};
                 \* the constructor is noexcept, so the throw terminates.
                 /\ wrapper' = delete_wrapper(new_wrapper(wrapper, k), k)
                 /\ \E e \in {errno, result'} : errno' = e
                 /\ exc'  = strerror(errno')
                 /\ proc' = "aborted"
                 /\ last' = Step("construct_throw", h, 0, NoCall)
                 /\ UNCHANGED <<alive, m_ID, thread, owned>>
            ELSE /\ wrapper' = new_wrapper(wrapper, k)
                 /\ thread'  = [thread EXCEPT ![k] = "started"]
                 /\ \E v \in StoredIdOutcomes(k) :
                        m_ID' = [m_ID EXCEPT ![h] = v]
                 /\ alive'  = [alive EXCEPT ![h] = TRUE]
                 /\ owned'  = [owned EXCEPT ![h] = k]
                 /\ last'   = Step("construct", h, 0, NoCall)
                 /\ UNCHANGED <<errno, exc, proc>>
    /\ UNCHANGED <<tstatus, counter, njoin, ndetach, blocked, joiner2>>

\* LinuxThread(LinuxThread&& other) noexcept: m_ID starts as id{} and is
\* swapped with other.m_ID.
move_construct(h, o) ==
    /\ CallerReady
    /\ ~ alive[h]
    /\ alive[o]
    /\ alive'  = [alive EXCEPT ![h] = TRUE]
    /\ m_ID'   = swap([m_ID EXCEPT ![h] = id_default], h, o)
    /\ owned'  = [owned EXCEPT ![h] = owned[o], ![o] = 0]
    /\ last'   = Step("move_construct", h, o, NoCall)
    /\ UNCHANGED <<thread, tstatus, wrapper, attempts, counter, njoin,
                   ndetach, proc, blocked, errno, exc>>
    /\ UNCHANGED <<result, joiner2>>

\* ----------------------------------------------------------- destructor
\* Variant of destroy with a seeded fault: the joinable() test is missing.
destroy_unguarded(h) ==
    /\ CallerReady
    /\ alive[h]
    /\ alive'  = [alive EXCEPT ![h] = FALSE]
    /\ owned'  = [owned EXCEPT ![h] = 0]
    /\ last'   = Step("destroy", h, 0, NoCall)
    /\ UNCHANGED <<m_ID, thread, tstatus, wrapper, attempts, counter, njoin,
                   ndetach, proc, blocked, errno, exc>>
    /\ UNCHANGED <<result, joiner2>>

\* ~LinuxThread(): if (joinable()) std::terminate();
destroy(h) ==
    /\ CallerReady
    /\ alive[h]
    /\ IF joinable(h)
       THEN /\ proc' = "aborted"
            /\ last' = Step("destroy_terminate", h, 0, NoCall)
            /\ UNCHANGED <<alive, owned>>
       ELSE /\ alive'  = [alive EXCEPT ![h] = FALSE]
            /\ owned'  = [owned EXCEPT ![h] = 0]
            /\ last'   = Step("destroy", h, 0, NoCall)
            /\ UNCHANGED proc
    /\ UNCHANGED <<m_ID, thread, tstatus, wrapper, attempts, counter, njoin,
                   ndetach, blocked, errno, exc>>
    /\ UNCHANGED <<result, joiner2>>

\* ------------------------------------------------------ move assignment
\* Variant of move_assign with a seeded fault: the identity is copied, the
\* source keeps it.
move_assign_copies(h, o) ==
    /\ CallerReady
    /\ alive[h]
    /\ alive[o]
    /\ IF joinable(h)
       THEN /\ proc' = "aborted"
            /\ last' = Step("move_assign_terminate", h, o, NoCall)
            /\ UNCHANGED <<m_ID, owned>>
       ELSE /\ m_ID'   = [m_ID EXCEPT ![h] = m_ID[o]]
            /\ owned'  = [owned EXCEPT ![h] = owned[o]]
            /\ last'   = Step("move_assign", h, o, NoCall)
            /\ UNCHANGED proc
    /\ UNCHANGED <<alive, thread, tstatus, wrapper, attempts, counter, njoin,
                   ndetach, blocked, errno, exc>>
    /\ UNCHANGED <<result, joiner2>>

\* Variant of move_assign with a seeded fault: the joinable() test is
\* missing and the identities are always swapped.
move_assign_unguarded(h, o) ==
    /\ CallerReady
    /\ alive[h]
    /\ alive[o]
    /\ m_ID'   = swap(m_ID, h, o)
    /\ owned'  = swap(owned, h, o)
    /\ last'   = Step("move_assign", h, o, NoCall)
    /\ UNCHANGED <<alive, thread, tstatus, wrapper, attempts, counter, njoin,
                   ndetach, proc, blocked, errno, exc>>
    /\ UNCHANGED <<result, joiner2>>

\* LinuxThread& operator=(LinuxThread&& other): if (joinable())
\* std::terminate(); std::swap(m_ID, other.m_ID);  (h = o is self-assignment)
move_assign(h, o) ==
    /\ CallerReady
    /\ alive[h]
    /\ alive[o]
    /\ IF joinable(h)
       THEN /\ proc' = "aborted"
            /\ last' = Step("move_assign_terminate", h, o, NoCall)
            /\ UNCHANGED <<m_ID, owned>>
       ELSE /\ m_ID'   = swap(m_ID, h, o)
            /\ owned'  = swap(owned, h, o)
            /\ last'   = Step("move_assign", h, o, NoCall)
            /\ UNCHANGED proc
    /\ UNCHANGED <<alive, thread, tstatus, wrapper, attempts, counter, njoin,
                   ndetach, blocked, errno, exc>>
    /\ UNCHANGED <<result, joiner2>>

\* ----------------------------------------------------------------- join
\* Variant of join_enter with a seeded fault: the joinable() test is
\* missing and pthread_join is always called.
join_enter_unguarded(h) ==
    /\ CallerReady
    /\ alive[h]
    /\ njoin'   = Called(njoin, native_handle(h))
    /\ blocked' = h
    /\ last'    = Step("join_enter", h, 0, native_handle(h))
    /\ UNCHANGED <<alive, m_ID, thread, tstatus, wrapper, attempts, counter,
                   ndetach, proc, errno, exc, owned>>
    /\ UNCHANGED <<result, joiner2>>

\* Variant of join_enter with a seeded fault: the identity is taken out of
\* the handle before pthread_join is called.
join_enter_takes_id(h) ==
    /\ CallerReady
    /\ alive[h]
    /\ IF joinable(h)
       THEN /\ njoin'   = Called(njoin, native_handle(h))
            /\ blocked' = h
            /\ m_ID'    = [m_ID EXCEPT ![h] = id_default]
            /\ last'    = Step("join_enter", h, 0, native_handle(h))
            /\ UNCHANGED owned
       ELSE /\ owned'   = [owned EXCEPT ![h] = 0]
            /\ last'    = Step("join_skip", h, 0, NoCall)
            /\ UNCHANGED <<njoin, blocked, m_ID>>
    /\ UNCHANGED <<alive, thread, tstatus, wrapper, attempts, counter,
                   ndetach, proc, errno, exc>>
    /\ UNCHANGED <<result, joiner2>>

\* join(), up to and including the call of pthread_join.  On an empty
\* handle the body of the if is skipped and join() has returned.
join_enter(h) ==
    /\ CallerReady
    /\ alive[h]
    /\ IF joinable(h)
       THEN /\ njoin'   = Called(njoin, native_handle(h))
            /\ blocked' = h
            /\ last'    = Step("join_enter", h, 0, native_handle(h))
            /\ UNCHANGED owned
       ELSE /\ owned'   = [owned EXCEPT ![h] = 0]
            /\ last'    = Step("join_skip", h, 0, NoCall)
            /\ UNCHANGED <<njoin, blocked>>
    /\ UNCHANGED <<alive, m_ID, thread, tstatus, wrapper, attempts, counter,
                   ndetach, proc, errno, exc>>
    /\ UNCHANGED <<result, joiner2>>

\* pthread_join returns, then m_ID = id{}.  Given a joinable thread,
\* pthread_join returns once that thread has terminated.  Given anything
\* else its behaviour is undefined: it reports an error at once, or faults.
join_exit(h) ==
    /\ proc = "running"
    /\ blocked = h
    /\ h \in Handles
    /\ LET x == native_handle(h) IN
       IF IsJoinableThread(x)
       THEN /\ thread[x] = "terminated"
            /\ tstatus' = [tstatus EXCEPT ![x] = "joined"]
            /\ m_ID'    = [m_ID EXCEPT ![h] = id_default]
            /\ blocked' = 0
            /\ owned'   = [owned EXCEPT ![h] = 0]
            /\ last'    = Step("join", h, 0, native_handle(h))
            /\ UNCHANGED proc
       ELSE \/ /\ m_ID'    = [m_ID EXCEPT ![h] = id_default]
               /\ blocked' = 0
               /\ owned'   = [owned EXCEPT ![h] = 0]
               /\ last'    = Step("join", h, 0, native_handle(h))
               /\ UNCHANGED <<tstatus, proc>>
            \/ /\ proc' = "crashed"
               /\ last' = Step("join_fault", h, 0, native_handle(h))
               /\ UNCHANGED <<tstatus, m_ID, blocked, owned>>
    /\ UNCHANGED <<alive, thread, wrapper, attempts, counter, njoin, ndetach,
                   errno, exc>>
    /\ UNCHANGED <<result, joiner2>>

join(h) == join_enter(h) \/ join_exit(h)

\* ------------------------------------------- join() by a second caller
\* The same join(), called by a second caller while the first caller may be
\* inside join(): nothing in join() keeps it out.  The identifier it passed
\* to pthread_join is kept in joiner2.
join2_enter(h) ==
    /\ proc = "running"
    /\ joiner2 = <<0, 0>>
    /\ alive[h]
    /\ IF joinable(h)
       THEN /\ njoin'   = Called(njoin, native_handle(h))
            /\ joiner2' = <<h, native_handle(h)>>
            /\ last'    = Step("join2_enter", h, 0, native_handle(h))
            /\ UNCHANGED owned
       ELSE /\ owned'   = [owned EXCEPT ![h] = 0]
            /\ last'    = Step("join2_skip", h, 0, NoCall)
            /\ UNCHANGED <<njoin, joiner2>>
    /\ UNCHANGED <<alive, m_ID, thread, tstatus, wrapper, attempts, counter,
                   ndetach, proc, blocked, errno, exc, result>>

join2_exit(h) ==
    /\ proc = "running"
    /\ joiner2[1] = h
    /\ h \in Handles
    /\ LET x == joiner2[2] IN
       IF IsJoinableThread(x)
       THEN /\ thread[x] = "terminated"
            /\ tstatus' = [tstatus EXCEPT ![x] = "joined"]
            /\ m_ID'    = [m_ID EXCEPT ![h] = id_default]
            /\ joiner2' = <<0, 0>>
            /\ owned'   = [owned EXCEPT ![h] = 0]
            /\ last'    = Step("join2", h, 0, x)
            /\ UNCHANGED proc
       ELSE \/ /\ m_ID'    = [m_ID EXCEPT ![h] = id_default]
               /\ joiner2' = <<0, 0>>
               /\ owned'   = [owned EXCEPT ![h] = 0]
               /\ last'    = Step("join2", h, 0, x)
               /\ UNCHANGED <<tstatus, proc>>
            \/ /\ proc' = "crashed"
               /\ last' = Step("join2_fault", h, 0, x)
               /\ UNCHANGED <<tstatus, m_ID, joiner2, owned>>
    /\ UNCHANGED <<alive, thread, wrapper, attempts, counter, njoin, ndetach,
                   blocked, errno, exc, result>>

join2(h) == join2_enter(h) \/ join2_exit(h)

\* --------------------------------------------------------------- detach
\* Variant of detach with a seeded fault: it waits, as join() does, until
\* the thread has terminated.
detach_waits(h) ==
    /\ CallerReady
    /\ alive[h]
    /\ LET x == native_handle(h) IN
       /\ IsJoinableThread(x)
       /\ thread[x] = "terminated"
       /\ ndetach' = Called(ndetach, x)
       /\ tstatus' = [tstatus EXCEPT ![x] = "detached"]
       /\ m_ID'    = [m_ID EXCEPT ![h] = id_default]
       /\ owned'   = [owned EXCEPT ![h] = 0]
       /\ last'    = Step("detach", h, 0, x)
    /\ UNCHANGED <<alive, thread, wrapper, attempts, counter, njoin, blocked,
                   proc, errno, exc>>
    /\ UNCHANGED <<result, joiner2>>

\* detach(): pthread_detach(native_handle()); m_ID = id{};  There is no
\* emptiness guard.  Given anything but a joinable thread, pthread_detach
\* is undefined: it reports an error (which detach() ignores), or faults.
\* Variant of detach with a seeded fault: an emptiness guard like the one
\* of join() skips the platform call.
detach_guarded(h) ==
    /\ CallerReady
    /\ alive[h]
    /\ LET x == native_handle(h) IN
       IF joinable(h)
       THEN /\ ndetach' = Called(ndetach, x)
            /\ IF IsJoinableThread(x)
               THEN /\ tstatus' = [tstatus EXCEPT ![x] = "detached"]
                    /\ m_ID'    = [m_ID EXCEPT ![h] = id_default]
                    /\ owned'   = [owned EXCEPT ![h] = 0]
                    /\ last'    = Step("detach", h, 0, x)
                    /\ UNCHANGED proc
               ELSE \/ /\ m_ID'   = [m_ID EXCEPT ![h] = id_default]
                       /\ owned'  = [owned EXCEPT ![h] = 0]
                       /\ last'   = Step("detach", h, 0, x)
                       /\ UNCHANGED <<tstatus, proc>>
                    \/ /\ proc' = "crashed"
                       /\ last' = Step("detach_fault", h, 0, x)
                       /\ UNCHANGED <<tstatus, m_ID, owned>>
       ELSE /\ owned' = [owned EXCEPT ![h] = 0]
            /\ last'  = Step("detach", h, 0, NoCall)
            /\ UNCHANGED <<ndetach, tstatus, m_ID, proc>>
    /\ UNCHANGED <<alive, thread, wrapper, attempts, counter, njoin, blocked,
                   errno, exc>>
    /\ UNCHANGED <<result, joiner2>>

detach(h) ==
    /\ CallerReady
    /\ alive[h]
    /\ LET x == native_handle(h) IN
       /\ ndetach' = Called(ndetach, x)
       /\ IF IsJoinableThread(x)
          THEN /\ tstatus' = [tstatus EXCEPT ![x] = "detached"]
               /\ m_ID'    = [m_ID EXCEPT ![h] = id_default]
               /\ owned'   = [owned EXCEPT ![h] = 0]
               /\ last'    = Step("detach", h, 0, x)
               /\ UNCHANGED proc
          ELSE \/ /\ m_ID'   = [m_ID EXCEPT ![h] = id_default]
                  /\ owned'  = [owned EXCEPT ![h] = 0]
                  /\ last'   = Step("detach", h, 0, x)
                  /\ UNCHANGED <<tstatus, proc>>
               \/ /\ proc' = "crashed"
                  /\ last' = Step("detach_fault", h, 0, x)
                  /\ UNCHANGED <<tstatus, m_ID, owned>>
    /\ UNCHANGED <<alive, thread, wrapper, attempts, counter, njoin, blocked,
                   errno, exc>>
    /\ UNCHANGED <<result, joiner2>>

\* ----------------------------------------------------- launched threads
\* The trampoline invokes the captured callable, which adds one to the
\* shared counter and returns.
routine_invoke(t) ==
    /\ proc = "running"
    /\ thread[t] = "started"
    /\ thread'  = [thread EXCEPT ![t] = "returned"]
    /\ counter' = counter + 1
    /\ last'    = Step("routine_invoke", 0, 0, NoCall)
    /\ UNCHANGED <<alive, m_ID, tstatus, wrapper, attempts, njoin, ndetach,
                   proc, blocked, errno, exc, owned>>
    /\ UNCHANGED <<result, joiner2>>

\* The trampoline frees the closure record and the thread terminates.
routine_exit(t) ==
    /\ proc = "running"
    /\ thread[t] = "returned"
    /\ thread'  = [thread EXCEPT ![t] = "terminated"]
    /\ wrapper' = [wrapper EXCEPT ![t].freed = @ + 1]
    /\ last'    = Step("routine_exit", 0, 0, NoCall)
    /\ UNCHANGED <<alive, m_ID, tstatus, attempts, counter, njoin, ndetach,
                   proc, blocked, errno, exc, owned>>
    /\ UNCHANGED <<result, joiner2>>

posix_thread_routine(t) == routine_invoke(t) \/ routine_exit(t)

\* ----------------------------------------------------------------- Next
Next ==
    \/ \E h \in Handles : default_construct(h)
    \/ \E h \in Handles : construct(h)
    \/ \E h \in Handles : \E o \in Handles \ {h} : move_construct(h, o)
    \/ \E h \in Handles : \E o \in Handles : move_assign(h, o)
    \/ \E h \in Handles : destroy(h)
    \/ \E h \in Handles : join(h)
    \/ \E h \in Handles : detach(h)
    \/ \E t \in Threads : posix_thread_routine(t)

Spec == Init /\ [][Next]_vars

\* The scheduler runs every launched thread, and pthread_join returns once
\* its thread has terminated.
FairSpec ==
    /\ Spec
    /\ \A t \in Threads : WF_vars(routine_invoke(t)) /\ WF_vars(routine_exit(t))
    /\ \A h \in Handles : WF_vars(join_exit(h))

\* ============================================================= properties
\* The platform state a handle operation may act on.
platform == <<thread, tstatus, njoin, ndetach>>

\* h is constructed and empty: ~LinuxThread() on it takes the branch that
\* does not terminate.
Empty(h) == alive[h] /\ ~ joinable(h) /\ id_eq(get_id(h), id_default)

\* ----------------------------------------------------------------- C1
\* C1: in every reachable state every constructed handle is joinable
\* exactly when its get_id() differs from the default identity, and a
\* handle that has just been default-constructed is not joinable and has
\* the default identity.
C1_JoinableIffIdNotDefault ==
    /\ \A h \in Handles :
          alive[h] => (joinable(h) <=> id_ne(get_id(h), id_default))
    /\ last.op = "default_construct" =>
          /\ ~ joinable(last.h)
          /\ id_eq(get_id(last.h), id_default)

\* A handle has just been default-constructed while another handle owns a
\* thread.
C1_Witness ==
    /\ last.op = "default_construct"
    /\ proc = "running"
    /\ \E g \in Handles : alive[g] /\ joinable(g) /\ id_ne(get_id(g), id_default)

\* ----------------------------------------------------------------- C2
\* C2: destroying a handle that is joinable terminates the process;
\* destroying an empty handle ends the object and changes nothing else; and
\* a handle that has just been default-constructed, moved from, joined or
\* detached is empty, so destroying it does not terminate.
C2_DestroyStep ==
    \A h \in Handles :
      ( /\ CallerReady
        /\ alive[h]
        /\ last' = Step(last'.op, h, 0, NoCall)
        /\ last'.op \in {"destroy", "destroy_terminate"} )
      => IF joinable(h)
         THEN proc' = "aborted" /\ alive'[h]
         ELSE /\ proc' = "running"
              /\ ~ alive'[h]
              /\ \A g \in Handles \ {h} : alive'[g] = alive[g]
              /\ UNCHANGED <<m_ID, platform, blocked>>

C2_EmptyAfter ==
    /\ last.op = "default_construct" => Empty(last.h)
    /\ last.op \in {"move_construct", "move_assign"} => Empty(last.o)
    /\ last.op \in {"join", "join_skip"} => Empty(last.h)
    /\ last.op = "detach" => Empty(last.h)

C2_DestroyOwningTerminates == [] C2_EmptyAfter /\ [][C2_DestroyStep]_vars

\* An owning handle has just been destroyed.
C2_Witness ==
    /\ last.op = "destroy_terminate"
    /\ proc = "aborted"
    /\ alive[last.h]
    /\ joinable(last.h)

\* ----------------------------------------------------------------- C3
\* C3: move-constructing B from an owning handle A, or move-assigning an
\* empty B from an owning A, leaves B joinable with A's identity from before
\* the move, leaves A empty with the default identity, and calls neither
\* pthread_join nor pthread_detach.
C3_MoveStep ==
    \A h, o \in Handles :
      ( /\ CallerReady
        /\ alive[o]
        /\ joinable(o)
        /\ \/ last' = Step("move_construct", h, o, NoCall) /\ ~ alive[h]
           \/ last' = Step("move_assign", h, o, NoCall) /\ alive[h]
                 /\ ~ joinable(h) )
      => /\ alive'[h]
         /\ joinable(h)'
         /\ id_eq(get_id(h)', get_id(o))
         /\ alive'[o]
         /\ ~ joinable(o)'
         /\ id_eq(get_id(o)', id_default)
         /\ proc' = "running"
         /\ UNCHANGED platform

C3_MoveTransfers == [][C3_MoveStep]_vars

\* An empty handle has just been move-assigned from an owning one.
C3_Witness ==
    /\ last.op = "move_assign"
    /\ last.h # last.o
    /\ alive[last.h]
    /\ joinable(last.h)
    /\ Empty(last.o)
    /\ proc = "running"

\* ----------------------------------------------------------------- C4
\* C4: move-assigning into a handle that is joinable terminates the
\* process; neither handle's identity changes and neither pthread_join nor
\* pthread_detach is called.
C4_AssignStep ==
    \A h, o \in Handles :
      ( /\ CallerReady
        /\ alive[h]
        /\ alive[o]
        /\ joinable(h)
        /\ last'.op \in {"move_assign", "move_assign_terminate"}
        /\ last' = Step(last'.op, h, o, NoCall) )
      => /\ proc' = "aborted"
         /\ UNCHANGED <<alive, m_ID, platform>>

C4_AssignOverOwningTerminates == [][C4_AssignStep]_vars

\* An owning handle has just been the destination of a move assignment from
\* another owning handle.
C4_Witness ==
    /\ last.op = "move_assign_terminate"
    /\ proc = "aborted"
    /\ last.h # last.o
    /\ joinable(last.h)
    /\ joinable(last.o)
    /\ id_ne(get_id(last.h), get_id(last.o))

\* ----------------------------------------------------------------- C5
\* C5: after a construction with a callable that succeeded, exactly one new
\* thread has been started and the handle is joinable with get_id() equal
\* to the identity of that thread, which is not the default identity.
C5_ConstructOwnsNewThread ==
    last.op = "construct" =>
        /\ Cardinality({t \in Threads : thread[t] # "unborn"}) = attempts
        /\ alive[last.h]
        /\ joinable(last.h)
        /\ id_eq(get_id(last.h), attempts)
        /\ id_ne(attempts, id_default)

\* ----------------------------------------------------------------- C6
\* C6: when pthread_create fails, the construction ends with an error
\* carried to the caller: the process keeps running, no thread has been
\* started and no handle has been constructed.
C6_CreateFailureIsSurfaced ==
    last.op = "construct_throw" =>
        /\ proc = "running"
        /\ exc # ""
        /\ thread[attempts] = "unborn"
        /\ ~ alive[last.h]

\* ----------------------------------------------------------------- C7
\* C7: when join() returns on a handle that was joinable, the thread that
\* was launched for that handle has terminated and the handle is empty.
C7_JoinStep ==
    \A h \in Handles :
      ( /\ proc = "running"
        /\ blocked = h
        /\ last'.op = "join"
        /\ last'.h = h )
      => /\ owned[h] \in Threads
         /\ thread[owned[h]] = "terminated"
         /\ ~ joinable(h)'

C7_JoinReturnsAfterTermination == [][C7_JoinStep]_vars

\* ----------------------------------------------------------------- C8
\* C8: with every launched thread scheduled until its callable has
\* returned, a join() that has been entered on an owning handle eventually
\* returns and leaves the handle empty.
C8_JoinEventuallyReturns ==
    \A h \in Handles : (blocked = h) ~> (blocked = 0 /\ ~ joinable(h))

\* ----------------------------------------------------------------- C9
\* C9: detach() never waits: it can be taken on every constructed handle
\* whatever the state of the threads; when it returns on a handle that was
\* joinable the handle is empty and no thread has moved; and the caller is
\* left inside an operation only by join().
C9_DetachEnabled ==
    \A h \in Handles : (CallerReady /\ alive[h]) => ENABLED detach(h)

C9_DetachStep ==
    \A h \in Handles :
      ( /\ CallerReady
        /\ alive[h]
        /\ joinable(h)
        /\ last'.op = "detach"
        /\ last'.h = h )
      => /\ ~ joinable(h)'
         /\ id_eq(get_id(h)', id_default)
         /\ thread' = thread
         /\ counter' = counter
         /\ blocked' = 0
         /\ proc' = "running"

C9_OnlyJoinBlocks == (blocked = 0 /\ blocked' # 0) => last'.op = "join_enter"

C9_DetachDoesNotWait ==
    [] C9_DetachEnabled /\ [][C9_DetachStep /\ C9_OnlyJoinBlocks]_vars

\* detach() has just returned on the handle of a thread whose callable has
\* not returned yet.
C9_Witness ==
    /\ last.op = "detach"
    /\ last.arg \in Threads
    /\ thread[last.arg] = "started"
    /\ tstatus[last.arg] = "detached"
    /\ Empty(last.h)
    /\ proc = "running"

\* ---------------------------------------------------------------- C10
\* C10: join() on an empty handle returns at once without calling
\* pthread_join and changes nothing; and after any join() has returned the
\* handle is empty, so a second join() in a row is that no-op.
C10_JoinEmptyStep ==
    \A h \in Handles :
      ( /\ CallerReady
        /\ alive[h]
        /\ ~ joinable(h)
        /\ last'.op \in {"join_enter", "join_skip", "join", "join_fault"}
        /\ last'.h = h )
      => /\ last' = Step("join_skip", h, 0, NoCall)
         /\ UNCHANGED <<alive, m_ID, platform, counter, wrapper, proc,
                        blocked, errno, exc>>

C10_EmptyAfterJoin == last.op \in {"join", "join_skip"} => Empty(last.h)

C10_JoinOnEmptyIsNoOp == [] C10_EmptyAfterJoin /\ [][C10_JoinEmptyStep]_vars

\* join() has just been called on an empty handle.
C10_Witness ==
    /\ last.op = "join_skip"
    /\ Empty(last.h)
    /\ blocked = 0
    /\ proc = "running"

\* ---------------------------------------------------------------- C11
\* h is constructed and joinable.
Owning(h) == alive[h] /\ joinable(h)

\* The step just taken is a move with source h / with destination h.
MovedFrom(h) == last'.op \in {"move_construct", "move_assign"} /\ last'.o = h

MovedTo(h) == last'.op \in {"move_construct", "move_assign"} /\ last'.h = h

\* A handle stops owning only by a join() or detach() that returned on it
\* or by being the source of a move.
C11_LeavesOwning ==
    \A h \in Handles :
      (Owning(h) /\ ~ Owning(h)') =>
          \/ last'.op \in {"join", "detach"} /\ last'.h = h
          \/ MovedFrom(h)

\* C11 as stated: a handle stops owning only by a join() or detach() that
\* returned on it or by being the source of a move, and a handle becomes
\* owning only by construction with a callable: a handle that exists and is
\* empty never becomes owning, and a handle is owning from its construction
\* on only if a constructor made it so.
C11_OnlyConstructionMakesOwning ==
    [][ /\ C11_LeavesOwning
        /\ \A h \in Handles :
             /\ (alive[h] /\ ~ joinable(h)) => ~ Owning(h)'
             /\ (~ alive[h] /\ Owning(h)') =>
                    /\ last'.op \in {"construct", "move_construct"}
                    /\ last'.h = h ]_vars

\* C11 as amended: a handle stops owning only by a join() or detach() that
\* returned on it or by being the source of a move, and a handle becomes
\* owning only by construction with a callable or by being the destination
\* of a move construction or move assignment.
C11_OwnershipTransitions ==
    [][ /\ C11_LeavesOwning
        /\ \A h \in Handles :
             (~ Owning(h) /\ Owning(h)') =>
                 \/ last'.op = "construct" /\ last'.h = h
                 \/ MovedTo(h) ]_vars

\* A constructed empty handle has just become owning as the destination of
\* a move assignment, and its source has stopped owning.
C11_Witness ==
    /\ last.op = "move_assign"
    /\ last.h # last.o
    /\ Owning(last.h)
    /\ owned[last.h] \in Threads
    /\ alive[last.o]
    /\ ~ Owning(last.o)

\* ---------------------------------------------------------------- C12
\* C12: in every reachable state no two distinct constructed handles have
\* the same get_id() other than the default identity.
C12_AtMostOneOwner ==
    \A h, g \in Handles :
      (h # g /\ Owning(h) /\ Owning(g)) => id_ne(get_id(h), get_id(g))

\* ---------------------------------------------------------------- C13
\* The caller only constructs handles with the counting callable and joins
\* them.
SpawnJoinNext ==
    \/ \E h \in Handles : construct(h)
    \/ \E h \in Handles : join(h)
    \/ \E t \in Threads : posix_thread_routine(t)

SpawnJoinSpec == Init /\ [][SpawnJoinNext]_vars

\* N = attempts handles have been constructed and join() has returned on
\* each of them.
AllJoined ==
    /\ proc = "running"
    /\ blocked = 0
    /\ attempts > 0
    /\ Cardinality({h \in Handles : alive[h]}) = attempts
    /\ \A h \in Handles : owned[h] = 0

\* C13: when N handles have been constructed with a callable that adds one
\* to the shared counter and join() has returned on all of them, the
\* counter is N and every handle is empty.
C13_CounterAfterJoins ==
    AllJoined =>
        /\ counter = attempts
        /\ \A h \in Handles : alive[h] => Empty(h)

\* ---------------------------------------------------------------- C14
\* get_id() of a handle compares equal before and after every step that is
\* not an operation on that handle.
C14_SameHandleSameId ==
    \A h \in Handles :
      (alive[h] /\ alive'[h] /\ last'.h # h /\ last'.o # h)
      => id_eq(get_id(h), get_id(h)') /\ ~ id_ne(get_id(h), get_id(h)')

\* The identities of two distinct handles that own at the same time
\* compare unequal.
C14_OwnersDiffer ==
    \A h, g \in Handles :
      (h # g /\ Owning(h) /\ Owning(g))
      => ~ id_eq(get_id(h), get_id(g)) /\ id_ne(get_id(h), get_id(g))

\* C14: identities obtained from one handle at different times compare
\* equal, and identities obtained from two distinct handles that own at the
\* same time compare unequal.
C14_IdentityEquality == [] C14_OwnersDiffer /\ [][C14_SameHandleSameId]_vars

\* ---------------------------------------------------------------- C15
\* C15: the closure record of a construction is released at most once; when
\* pthread_create failed it has been released by the constructor and no
\* thread runs that could release it again; when a thread was started the
\* record is not released before the callable has returned and the
\* trampoline has ended, and it is released once the thread has terminated.
C15_RecordReleasedOnce ==
    \A k \in Threads :
      /\ wrapper[k].freed <= wrapper[k].alloc
      /\ wrapper[k].alloc = (IF k <= attempts THEN 1 ELSE 0)
      /\ (k <= attempts /\ thread[k] = "unborn") => wrapper[k].freed = 1
      /\ thread[k] \in {"started", "returned"} => wrapper[k].freed = 0
      /\ thread[k] = "terminated" => wrapper[k].freed = 1

\* One construction has failed and its record has been released by the
\* constructor, after the record of an earlier construction was released
\* by its terminated thread.
C15_Witness ==
    /\ last.op = "construct_throw"
    /\ thread[attempts] = "unborn"
    /\ wrapper[attempts].freed = 1
    /\ \E k \in Threads :
          k < attempts /\ thread[k] = "terminated" /\ wrapper[k].freed = 1

\* ---------------------------------------------------------------- C16
\* Handles are constructed with a callable and two callers call join().
RaceNext ==
    \/ \E h \in Handles : construct(h)
    \/ \E h \in Handles : join(h)
    \/ \E h \in Handles : join2(h)
    \/ \E t \in Threads : posix_thread_routine(t)

RaceSpec == Init /\ [][RaceNext]_vars

\* Entering join() leaves the handle as it was: it is still joinable, with
\* the same identity, while the caller is inside pthread_join.
C16_EnterLeavesJoinable ==
    \A h \in Handles :
      (blocked = 0 /\ blocked' = h /\ last'.op = "join_enter")
      => /\ joinable(h)'
         /\ id_eq(get_id(h)', get_id(h))

\* A join() of the second caller on a joinable handle, the first caller
\* being inside join() on it, passes the same identifier to pthread_join.
C16_SecondJoinCalls ==
    \A h \in Handles :
      ( /\ proc = "running"
        /\ blocked = h
        /\ joiner2 = <<0, 0>>
        /\ alive[h]
        /\ joinable(h)
        /\ last'.op \in {"join2_enter", "join2_skip"}
        /\ last'.h = h )
      => /\ last' = Step("join2_enter", h, 0, get_id(h))
         /\ joiner2' = <<h, get_id(h)>>
         /\ njoin' = Called(njoin, get_id(h))
         /\ blocked' = h

\* C16: join() is not guarded against concurrent use: a caller that is
\* inside join() leaves the handle joinable, and a second caller's join()
\* on it calls pthread_join again with the same identifier.
C16_JoinIsNotGuarded ==
    [][C16_EnterLeavesJoinable /\ C16_SecondJoinCalls]_vars

\* Both callers are inside join() on the same handle and pthread_join has
\* been called twice for the same thread.
C16_Witness ==
    \E h \in Handles : \E t \in Threads :
      /\ proc = "running"
      /\ blocked = h
      /\ joiner2 = <<h, t>>
      /\ get_id(h) = t
      /\ thread[t] # "unborn"
      /\ njoin[t] = 2

\* ---------------------------------------------------------------- C17
\* A detach() on the empty handle h.
C17_DetachEmptyStep(h) ==
    /\ CallerReady
    /\ alive[h]
    /\ ~ joinable(h)
    /\ last'.h = h
    /\ last'.op \in {"detach", "detach_fault"}

\* C17: detach() has no emptiness guard: on an empty handle it calls
\* pthread_detach with the sentinel identifier, and when it returns it has
\* reported no error and the handle is empty.
C17_DetachOnEmptyCallsPlatform ==
    [][\A h \in Handles :
         C17_DetachEmptyStep(h)
         => /\ last'.arg = Sentinel
            /\ last'.op = "detach"
               => /\ Empty(h)'
                  /\ proc' = "running"
                  /\ exc' = exc
                  /\ errno' = errno
                  /\ platform' = platform]_vars

\* detach() has returned from a call on an empty handle, having passed the
\* sentinel to pthread_detach.
C17_Witness ==
    /\ last.op = "detach"
    /\ last.arg = Sentinel
    /\ last.h \in Handles
    /\ Empty(last.h)
    /\ proc = "running"

\* ---------------------------------------------------------------- C18
\* C18: when the construction fails, the error it produces carries the
\* description of the code that pthread_create returned, whatever the code.
C18_ErrorDescribesReturnedCode ==
    last.op = "construct_throw" =>
        /\ result # 0
        /\ exc = strerror(result)

\* ---------------------------------------------------------------- C19
\* C19: pthread_join and pthread_detach are called at most once in total
\* for each launched thread, over the operations of a single caller.
C19_JoinedOrDetachedAtMostOnce ==
    \A t \in Threads :
        /\ njoin[t] + ndetach[t] <= 1
        /\ thread[t] = "unborn" => njoin[t] + ndetach[t] = 0

\* ---------------------------------------------------------------- C20
\* C20: the process is aborted only by an ownership violation: the step
\* that aborts it is the destruction of an owning handle or a move
\* assignment over an owning handle.
C20_AbortOnlyByOwnershipViolation ==
    [][(proc # "aborted" /\ proc' = "aborted")
       => last'.op \in {"destroy_terminate", "move_assign_terminate"}]_vars
====
